---- MODULE Spec2Model ----
(***************************************************************************)
(* Conversation memory of the chat client: the Mem0Client of               *)
(* src/lib/mem0.ts (rolling summary, memory entries, retrieval by word     *)
(* overlap), the /api/memory adapter and the chat route: extraction,       *)
(* retrieval, the injected memory message, trimHistory, the model call,    *)
(* the saves of the user and the assistant message, and their failures;    *)
(* addMemory and deleteMemory as a read step and a write step; and the     *)
(* chat client (ChatUI.tsx, and the refactored ChatUI with the useChat     *)
(* hook): its state and the requests that stream into its message list.    *)
(*                                                                         *)
(* Strings are sequences of one-character strings, so that slice, split,   *)
(* toLowerCase and concatenation are computed character by character.      *)
(* Scores are exact fractions <<numerator, denominator>> with a positive   *)
(* denominator.                                                            *)
(*                                                                         *)
(* The store is the document store mem0.ts programs against: findById      *)
(* returns the record as last written and findByIdAndUpdate replaces the   *)
(* paths it is given.  (ConversationSchema in src/lib/models.ts declares   *)
(* no memoryEntries path; mem0.ts reads and writes it through untyped      *)
(* casts, and the model follows mem0.ts.)                                  *)
(*                                                                         *)
(* The fields of message, entry and result records are written in the      *)
(* order in which TLC keeps them (first occurrence of the name in the      *)
(* module), so that a record is in normal form from the start.             *)
(***************************************************************************)
EXTENDS Integers, Sequences, FiniteSets, TLC

VARIABLES
    conversation,   \* the Conversation record of the one conversation id
    messages,       \* the Message collection of that conversation, oldest first
    nextMemId,      \* stands for the fresh `mem_<time>_<random>` id of addMemory
    opCount,        \* number of store-changing calls made so far
    inflight,       \* number of chat generations whose final text is still awaited
    last,           \* the last call: its name, arguments, pre-state and result
    simQuery,       \* calculateSimilarity: query argument of the last call
    simContent,     \* calculateSimilarity: content argument of the last call
    simScore,       \* calculateSimilarity: value returned by the last call
    calls,          \* addMemory and deleteMemory calls taken step by step: what
                    \* each has read, and whether it has written and returned
    impl,           \* the client: ChatUI.tsx, or the refactored ChatUI with useChat
    uiMessages,     \* client state `messages`: the message list on screen
    isLoading,      \* client state
    error,          \* client state: null or the text shown as error
    conversationId, \* client state: null or the id of the open conversation
    localInput,     \* client state: the text in the composer
    editingId,      \* client state: null (0) or the id of the message being edited
    abortRef,       \* abortRef.current: null (0) or the request whose controller it holds
    requests,       \* the requests the client has started, by number
    nextId          \* stands for the next crypto.randomUUID() of a message

clientVars == <<impl, uiMessages, isLoading, error, conversationId, localInput,
                editingId, abortRef, requests, nextId>>

vars == <<conversation, messages, nextMemId, opCount, inflight, last,
          simQuery, simContent, simScore, calls, clientVars>>

storeVars == <<conversation, messages, nextMemId, opCount, inflight, last>>
simVars == <<simQuery, simContent, simScore>>

-----------------------------------------------------------------------------
(* Bounds *)

\* at most this many store-changing calls are made in one behaviour of Spec
MaxOps == 1
\* at most this many store-changing calls are made in one behaviour of SpecSummary
MaxSummaryOps == 2
\* at most this many store-changing calls are made in one behaviour of SpecRecent
MaxRecentOps == 1
\* number of messages a conversation of Spec starts with
ShortHistory == 3
\* longest message list handed to trimHistory in SpecTrim
MaxTrimLen == 17
\* at most this many requests reach the chat route in one behaviour of SpecChat
MaxTurns == 2
\* at most this many store-changing calls are made in one behaviour of SpecEntries
MaxEntryOps == 2
\* at most this many requests reach the chat route in one behaviour of SpecExtract
MaxExtractTurns == 2
\* at most this many store-changing calls are made in one behaviour of SpecOwner
MaxOwnerOps == 2
\* at most this many addMemory and deleteMemory calls start in one behaviour of
\* SpecConcurrent
MaxCalls == 2
\* at most this many requests does the client start in one behaviour of SpecClient
MaxRequests == 2
\* at most this many chunks does one response stream deliver
MaxChunks == 1

-----------------------------------------------------------------------------
(* Numbers *)

Max(a, b) == IF a >= b THEN a ELSE b
Min(a, b) == IF a <= b THEN a ELSE b

\* fractions n/d with d > 0
Frac(n, d) == <<n, d>>
FracGeq(x, y) == x[1] * y[2] >= y[1] * x[2]
FracEq(x, y) == x[1] * y[2] = y[1] * x[2]
FracGt(x, y) == x[1] * y[2] > y[1] * x[2]
FracTimes(x, k) == <<x[1] * k, x[2]>>

\* Math.min(x, 1)
MathMin1(x) == IF FracGt(x, Frac(1, 1)) THEN Frac(1, 1) ELSE x

-----------------------------------------------------------------------------
(* Strings *)

\* String.prototype.slice(0, end) for end >= 0
StrSlice(s, end) == SubSeq(s, 1, Min(end, Len(s)))

\* Array.prototype.slice(0, end): a negative end counts from the back
ArraySlice(s, end) ==
    LET stop == IF end < 0 THEN Max(Len(s) + end, 0) ELSE Min(end, Len(s))
    IN  SubSeq(s, 1, stop)

\* Array.prototype.slice(-n): the last n elements (everything when n = 0 is
\* written -0, or when n exceeds the length)
ArraySliceFromEnd(s, n) ==
    LET start == IF n > 0 THEN Max(Len(s) - n, 0) ELSE Min(0 - n, Len(s))
    IN  SubSeq(s, start + 1, Len(s))

UpperChars == <<"A", "B", "C", "D", "E", "F", "G", "H", "I", "J", "K", "L", "M",
                "N", "O", "P", "Q", "R", "S", "T", "U", "V", "W", "X", "Y", "Z">>
LowerChars == <<"a", "b", "c", "d", "e", "f", "g", "h", "i", "j", "k", "l", "m",
                "n", "o", "p", "q", "r", "s", "t", "u", "v", "w", "x", "y", "z">>
UpperSet == {UpperChars[i] : i \in 1..26}
LowerOf == [c \in UpperSet |-> LowerChars[CHOOSE i \in 1..26 : UpperChars[i] = c]]

\* String.prototype.toLowerCase
toLowerCase(s) == [i \in 1..Len(s) |-> IF s[i] \in UpperSet THEN LowerOf[s[i]] ELSE s[i]]

\* the characters matched by the regular expression class \s
IsSpace(c) == c \in {" ", "\n", "\t"}

\* String.prototype.includes
includes(s, kw) == \E i \in 0..(Len(s) - Len(kw)) : SubSeq(s, i + 1, i + Len(kw)) = kw

RECURSIVE SortedSeqOf(_)
SortedSeqOf(S) ==
    IF S = {} THEN <<>>
    ELSE LET m == CHOOSE x \in S : \A y \in S : x <= y
         IN  <<m>> \o SortedSeqOf(S \ {m})

\* String.prototype.split(/\s+/): the pieces between the maximal runs of
\* whitespace.  A string that starts (ends) with whitespace has an empty first
\* (last) piece, and the empty string splits into the one piece "".
split(s) ==
    LET n      == Len(s)
        starts == {i \in 1..n : ~IsSpace(s[i]) /\ (i = 1 \/ IsSpace(s[i - 1]))}
        ends   == {j \in 1..n : ~IsSpace(s[j]) /\ (j = n \/ IsSpace(s[j + 1]))}
        ss     == SortedSeqOf(starts)
        es     == SortedSeqOf(ends)
        words  == [k \in 1..Len(ss) |-> SubSeq(s, ss[k], es[k])]
        lead   == IF n = 0 \/ IsSpace(s[1]) THEN << <<>> >> ELSE <<>>
        trail  == IF n > 0 /\ IsSpace(s[n]) THEN << <<>> >> ELSE <<>>
    IN  lead \o words \o trail

-----------------------------------------------------------------------------
(* Mem0Client.calculateSimilarity *)

\* variant: the overlap is divided by the number of content words
calculateSimilarity_ByContent(query, content) ==
    LET queryWords   == split(toLowerCase(query))
        contentWords == split(toLowerCase(content))
        inContent(w) == \E i \in 1..Len(contentWords) : contentWords[i] = w
        commonWords  == SelectSeq(queryWords, inContent)
        similarity   == Frac(Len(commonWords), Max(Len(contentWords), 1))
    IN  MathMin1(similarity)

calculateSimilarity(query, content) ==
    LET queryWords   == split(toLowerCase(query))
        contentWords == split(toLowerCase(content))
        inContent(w) == \E i \in 1..Len(contentWords) : contentWords[i] = w
        commonWords  == SelectSeq(queryWords, inContent)
        similarity   == Frac(Len(commonWords), Max(Len(queryWords), 1))
    IN  MathMin1(similarity)

-----------------------------------------------------------------------------
(* String literals of the source *)

ImportantMarker == <<"\n", "\n", "I", "m", "p", "o", "r", "t", "a", "n", "t", ":", " ">>
PreferencePrefix == <<"U", "s", "e", "r", " ", "p", "r", "e", "f", "e", "r", "e", "n", "c", "e", ":", " ">>
FactPrefix == <<"F", "a", "c", "t", ":", " ">>
AssistantPrefix == <<"A", "s", "s", "i", "s", "t", "a", "n", "t", " ", "r", "e", "s", "p", "o", "n", "s", "e", ":", " ">>
NewChatTitle == <<"N", "e", "w", " ", "c", "h", "a", "t">>

preferenceKeywords == <<
    <<"i", " ", "l", "i", "k", "e">>,
    <<"i", " ", "p", "r", "e", "f", "e", "r">>,
    <<"i", " ", "w", "a", "n", "t">>,
    <<"i", " ", "n", "e", "e", "d">>,
    <<"i", " ", "l", "o", "v", "e">>,
    <<"i", " ", "h", "a", "t", "e">>,
    <<"m", "y", " ", "f", "a", "v", "o", "r", "i", "t", "e">>,
    <<"i", " ", "a", "l", "w", "a", "y", "s">>,
    <<"i", " ", "n", "e", "v", "e", "r">>,
    <<"i", " ", "u", "s", "u", "a", "l", "l", "y">>,
    <<"i", " ", "t", "y", "p", "i", "c", "a", "l", "l", "y">> >>

factKeywords == <<
    <<"r", "e", "m", "e", "m", "b", "e", "r">>,
    <<"n", "o", "t", "e", " ", "t", "h", "a", "t">>,
    <<"i", "m", "p", "o", "r", "t", "a", "n", "t">>,
    <<"k", "e", "e", "p", " ", "i", "n", " ", "m", "i", "n", "d">>,
    <<"f", "a", "c", "t", ":">>,
    <<"i", "n", "f", "o", ":">>,
    <<"d", "a", "t", "a", ":">>,
    <<"s", "t", "a", "t", "i", "s", "t", "i", "c", "s">> >>

\* createEnhancedSummary: const maxLength
maxLength == 1000
\* storeMemory: content.slice(0, 800)
LegacyLength == 800
\* searchMemories: .limit(20)
RecentLimit == 20
\* importance given to the summary, to user messages, to other messages
SummaryImportance == 8
UserImportance == 7
OtherImportance == 5
\* extractKeyInfo: importance of preference and fact entries
PreferenceImportance == 8
FactImportance == 6
\* chat route: arguments of searchMemories and of the final addMemory
ChatLimit == 3
ChatMinScore == Frac(3, 10)
ResponseImportance == 6
\* getAllMemories: searchMemories("", 50, 0)
AllLimit == 50
\* chat route: title = first 40 characters of the first message
TitleLength == 40

-----------------------------------------------------------------------------
(* Inputs *)

Repeat(c, n) == [i \in 1..n |-> c]

StrEmpty == <<>>
StrA == <<"a">>
StrB == <<"b">>
StrAB == <<"a", " ", "b">>
StrSpA == <<" ", "a">>
StrASp == <<"a", " ">>
StrILikeA == <<"I", " ", "l", "i", "k", "e", " ", "a">>
StrNoteB == <<"N", "o", "t", "e", " ", "t", "h", "a", "t", " ", "b">>
\* with the 13-character marker in front, 13 + 977 = 990 characters
Long977 == Repeat("a", 977)
Long1001 == Repeat("a", 1001)

UserId == "u1"

UserMsg(c) == [content |-> c, role |-> "user"]
AssistantMsg(c) == [content |-> c, role |-> "assistant"]
SystemMsg(c) == [content |-> c, role |-> "system"]

MemoryTypes == {"user_preference", "fact", "context", "summary"}
MemContents == {StrAB}
LongContents == {StrAB, Long977, Long1001}
Importances == {6, 7}
MemoryIds == 1..2

\* message lists a client posts to the chat route
ChatInputs == {
    <<>>,
    <<UserMsg(StrILikeA)>>,
    <<UserMsg(StrSpA)>>,
    <<UserMsg(StrAB), AssistantMsg(StrNoteB), UserMsg(StrB)>>,
    <<SystemMsg(StrILikeA), UserMsg(StrA), AssistantMsg(StrB)>> }

FinalTexts == {StrB, StrASp}

Queries == {StrEmpty, StrAB}
Limits == {-1, 0, 1, AllLimit}
MinScores == {Frac(0, 1), Frac(3, 10), Frac(1, 1)}

\* sizes of the message history a conversation starts with
HistorySizes == {0, ShortHistory}
\* the same for SpecRecent: around the 20 messages retrieval reads
RecentSizes == {RecentLimit - 1, RecentLimit}
RecentLimits == {-1, 1, AllLimit}

\* a stored history of n messages, user and assistant turns alternating
History(n) ==
    [i \in 1..n |-> IF i % 2 = 1
                    THEN [content |-> StrAB, role |-> "user", userId |-> UserId]
                    ELSE [content |-> StrB, role |-> "assistant", userId |-> UserId]]

-----------------------------------------------------------------------------
(* Mem0Client *)

NoConversation ==
    [exists |-> FALSE, title |-> <<>>, summary |-> <<>>, memoryEntries |-> <<>>]

\* new Conversation({ title, userId }): no summary, no entries yet
NewConversation(title) ==
    [exists |-> TRUE, title |-> title, summary |-> <<>>, memoryEntries |-> <<>>]

MemoryEntry(id, content, type, importance) ==
    [content |-> content, id |-> id, type |-> type, importance |-> importance]

\* variant: the important branch forgets the cap
createEnhancedSummary_NoCap(existingSummary, memory) ==
    IF memory.type = "summary"
    THEN StrSlice(memory.content, maxLength)
    ELSE IF memory.importance >= 7
         THEN existingSummary \o ImportantMarker \o memory.content
         ELSE existingSummary

\* variant: a summary entry is appended to the previous summary
createEnhancedSummary_KeepOld(existingSummary, memory) ==
    IF memory.type = "summary"
    THEN StrSlice(existingSummary \o memory.content, maxLength)
    ELSE IF memory.importance >= 7
         THEN StrSlice(existingSummary \o ImportantMarker \o memory.content, maxLength)
         ELSE existingSummary

\* variant: the cap keeps the last maxLength characters, slice(-maxLength)
createEnhancedSummary_KeepTail(existingSummary, memory) ==
    IF memory.type = "summary"
    THEN StrSlice(memory.content, maxLength)
    ELSE IF memory.importance >= 7
         THEN ArraySliceFromEnd(existingSummary \o ImportantMarker \o memory.content,
                                maxLength)
         ELSE existingSummary

\* variant: the importance threshold is off by one
createEnhancedSummary_Threshold6(existingSummary, memory) ==
    IF memory.type = "summary"
    THEN StrSlice(memory.content, maxLength)
    ELSE IF memory.importance >= 6
         THEN StrSlice(existingSummary \o ImportantMarker \o memory.content, maxLength)
         ELSE existingSummary

createEnhancedSummary(existingSummary, memory) ==
    IF memory.type = "summary"
    THEN StrSlice(memory.content, maxLength)
    ELSE IF memory.importance >= 7
         THEN StrSlice(existingSummary \o ImportantMarker \o memory.content, maxLength)
         ELSE existingSummary

\* variant: findByIdAndUpdate with upsert, a missing record is created
updateConversationMemory_Upsert(conv, memory) ==
    [conv EXCEPT !.exists = TRUE,
                 !.summary = createEnhancedSummary(conv.summary, memory),
                 !.memoryEntries = conv.memoryEntries \o <<memory>>]

\* reads the record, then writes the summary and the entry list back
updateConversationMemory(conv, memory) ==
    IF conv.exists
    THEN [conv EXCEPT !.summary = createEnhancedSummary(conv.summary, memory),
                      !.memoryEntries = conv.memoryEntries \o <<memory>>]
    ELSE conv

\* variant: the write appends to the record as it is stored at the time of the
\* write (an atomic $push), not to what the call has read
writeMemory_Atomic(conv, read, memory) ==
    IF read.exists
    THEN [conv EXCEPT !.summary = createEnhancedSummary(conv.summary, memory),
                      !.memoryEntries = conv.memoryEntries \o <<memory>>]
    ELSE conv

\* updateConversationMemory after its findById: findByIdAndUpdate sets the
\* summary and the entry list computed from the record the call has read
writeMemory(conv, read, memory) ==
    IF read.exists
    THEN [conv EXCEPT !.summary = createEnhancedSummary(read.summary, memory),
                      !.memoryEntries = read.memoryEntries \o <<memory>>]
    ELSE conv

\* deleteMemory after its findById: findByIdAndUpdate sets the entry list
\* filtered from the record the call has read
writeFiltered(conv, read, memoryId) ==
    IF read.exists
    THEN [conv EXCEPT !.memoryEntries =
              SelectSeq(read.memoryEntries, LAMBDA entry : entry.id # memoryId)]
    ELSE conv

\* variant: the update also clears the summary
deleteMemory_ClearsSummary(conv, memoryId) ==
    IF conv.exists
    THEN [conv EXCEPT !.memoryEntries =
              SelectSeq(conv.memoryEntries, LAMBDA entry : entry.id # memoryId),
                      !.summary = <<>>]
    ELSE conv

\* the record after deleteMemory(memoryId)
deleteMemory(conv, memoryId) ==
    IF conv.exists
    THEN [conv EXCEPT !.memoryEntries =
              SelectSeq(conv.memoryEntries, LAMBDA entry : entry.id # memoryId)]
    ELSE conv

\* the record after the legacy storeMemory(conversationId, content)
storeMemory(conv, content) ==
    IF conv.exists
    THEN [conv EXCEPT !.summary = StrSlice(content, LegacyLength)]
    ELSE conv

containsPreference(content) ==
    \E k \in 1..Len(preferenceKeywords) : includes(toLowerCase(content), preferenceKeywords[k])

containsFact(content) ==
    \E k \in 1..Len(factKeywords) : includes(toLowerCase(content), factKeywords[k])

\* variant: the messages are not filtered by role
extractedMemories_AnyRole(msgs) ==
    LET prefs == SelectSeq(msgs, LAMBDA m : containsPreference(m.content))
        facts == SelectSeq(msgs, LAMBDA m : containsFact(m.content))
    IN  [i \in 1..Len(prefs) |->
            [content |-> PreferencePrefix \o prefs[i].content,
             type |-> "user_preference", importance |-> PreferenceImportance]]
        \o
        [i \in 1..Len(facts) |->
            [content |-> FactPrefix \o facts[i].content,
             type |-> "fact", importance |-> FactImportance]]

\* the addMemory calls of extractKeyInfo, in the order it makes them
extractedMemories(msgs) ==
    LET userMessages      == SelectSeq(msgs, LAMBDA m : m.role = "user")
        assistantMessages == SelectSeq(msgs, LAMBDA m : m.role = "assistant")
        prefs == SelectSeq(userMessages, LAMBDA m : containsPreference(m.content))
        facts == SelectSeq(assistantMessages, LAMBDA m : containsFact(m.content))
    IN  [i \in 1..Len(prefs) |->
            [content |-> PreferencePrefix \o prefs[i].content,
             type |-> "user_preference", importance |-> PreferenceImportance]]
        \o
        [i \in 1..Len(facts) |->
            [content |-> FactPrefix \o facts[i].content,
             type |-> "fact", importance |-> FactImportance]]

\* variant: an entry whose content is already stored is skipped
RECURSIVE addMemories_Dedup(_, _, _)
addMemories_Dedup(conv, adds, id) ==
    IF adds = <<>> THEN conv
    ELSE IF \E i \in 1..Len(conv.memoryEntries) :
                conv.memoryEntries[i].content = Head(adds).content
         THEN addMemories_Dedup(conv, Tail(adds), id + 1)
         ELSE addMemories_Dedup(
                 updateConversationMemory(conv,
                     MemoryEntry(id, Head(adds).content, Head(adds).type, Head(adds).importance)),
                 Tail(adds), id + 1)

\* the record after addMemory was called for each of adds, ids counted from id
RECURSIVE addMemories(_, _, _)
addMemories(conv, adds, id) ==
    IF adds = <<>> THEN conv
    ELSE addMemories(
            updateConversationMemory(conv,
                MemoryEntry(id, Head(adds).content, Head(adds).type, Head(adds).importance)),
            Tail(adds), id + 1)

Reverse(s) == [i \in 1..Len(s) |-> s[Len(s) + 1 - i]]

\* variant: the query has no .limit(20)
recentMessages_NoLimit(msgs, userId) ==
    Reverse(SelectSeq(msgs, LAMBDA m : m.userId = userId))

\* Message.find({conversationId, userId}).sort({createdAt: -1}).limit(20)
recentMessages(msgs, userId) ==
    StrSlice(Reverse(SelectSeq(msgs, LAMBDA m : m.userId = userId)), RecentLimit)

Product(m) == FracTimes(m.score, m.importance)

\* variant: an unstable sort, candidates of equal product change places
RECURSIVE sortMemories_TiesReversed(_)
sortMemories_TiesReversed(ms) ==
    IF ms = <<>> THEN <<>>
    ELSE LET n      == Len(ms)
             sorted == sortMemories_TiesReversed(SubSeq(ms, 1, n - 1))
             x      == ms[n]
             before == Cardinality({i \in 1..Len(sorted) : FracGt(Product(sorted[i]), Product(x))})
         IN  SubSeq(sorted, 1, before) \o <<x>> \o SubSeq(sorted, before + 1, Len(sorted))

\* Array.prototype.sort with (a, b) => b.score * b.importance - a.score * a.importance:
\* a stable sort, greater products first
RECURSIVE sortMemories(_)
sortMemories(ms) ==
    IF ms = <<>> THEN <<>>
    ELSE LET n      == Len(ms)
             sorted == sortMemories(SubSeq(ms, 1, n - 1))
             x      == ms[n]
             before == Cardinality({i \in 1..Len(sorted) : FracGeq(Product(sorted[i]), Product(x))})
         IN  SubSeq(sorted, 1, before) \o <<x>> \o SubSeq(sorted, before + 1, Len(sorted))

\* the candidates that pass minScore, in the order searchMemories pushes them
memoriesPool(conv, msgs, userId, query, minScore) ==
    LET recent == recentMessages(msgs, userId)
        fromSummary ==
            IF conv.exists /\ conv.summary # <<>>
            THEN LET score == calculateSimilarity(query, conv.summary)
                 IN  IF FracGeq(score, minScore)
                     THEN << [content |-> conv.summary,
                              type |-> "summary",
                              importance |-> SummaryImportance,
                              score |-> score] >>
                     ELSE <<>>
            ELSE <<>>
        scored == [i \in 1..Len(recent) |->
                     [content |-> recent[i].content,
                      type |-> IF recent[i].role = "user" THEN "user_preference" ELSE "context",
                      importance |-> IF recent[i].role = "user" THEN UserImportance
                                                                 ELSE OtherImportance,
                      score |-> calculateSimilarity(query, recent[i].content)]]
    IN  fromSummary \o SelectSeq(scored, LAMBDA m : FracGeq(m.score, minScore))

searchMemories(conv, msgs, userId, query, limit, minScore) ==
    ArraySlice(sortMemories(memoriesPool(conv, msgs, userId, query, minScore)), limit)

\* merged.map(m => m.content).join(' ')
RECURSIVE join(_)
join(msgs) ==
    IF msgs = <<>> THEN <<>>
    ELSE IF Len(msgs) = 1 THEN msgs[1].content
    ELSE msgs[1].content \o <<" ">> \o join(Tail(msgs))

-----------------------------------------------------------------------------
(* The chat route, src/app/api/chat *)

\* { maxTokens = 8000 } of the request body
DefaultMaxTokens == 8000
\* trimHistory: Math.max(6, Math.floor(maxTokens / 500))
MinMessages == 6
TokensPerMessage == 500

\* variant: without the floor of 6 messages
trimHistory_NoMinimum(msgs, maxTokens) ==
    LET maxMessages == maxTokens \div TokensPerMessage
    IN  ArraySliceFromEnd(msgs, maxMessages)

\* trimHistory: messages.slice(-maxMessages); \div rounds down as Math.floor
trimHistory(msgs, maxTokens) ==
    LET maxMessages == Max(MinMessages, maxTokens \div TokensPerMessage)
    IN  ArraySliceFromEnd(msgs, maxMessages)

\* String.prototype.toUpperCase
UpperOf == [c \in {LowerChars[i] : i \in 1..26} |->
               UpperChars[CHOOSE i \in 1..26 : LowerChars[i] = c]]
toUpperCase(s) == [i \in 1..Len(s) |-> IF s[i] \in DOMAIN UpperOf THEN UpperOf[s[i]] ELSE s[i]]

\* the characters of a memory type
TypeChars(t) ==
    CASE t = "user_preference" -> <<"u", "s", "e", "r", "_", "p", "r", "e", "f", "e", "r", "e", "n", "c", "e">>
      [] t = "fact" -> <<"f", "a", "c", "t">>
      [] t = "context" -> <<"c", "o", "n", "t", "e", "x", "t">>
      [] t = "summary" -> <<"s", "u", "m", "m", "a", "r", "y">>

\* the text around the memories in the injected system message
MemoryHeader ==
    <<"R", "e", "l", "e", "v", "a", "n", "t", " ", "m", "e", "m", "o", "r",
    "i", "e", "s", " ", "f", "r", "o", "m", " ", "p", "a", "s", "t", " ",
    "c", "o", "n", "v", "e", "r", "s", "a", "t", "i", "o", "n", "s", ":",
    "\n", "\n">>
MemoryFooter ==
    <<"\n", "\n", "U", "s", "e", " ", "t", "h", "i", "s", " ", "i", "n", "f",
    "o", "r", "m", "a", "t", "i", "o", "n", " ", "t", "o", " ", "p", "r",
    "o", "v", "i", "d", "e", " ", "m", "o", "r", "e", " ", "p", "e", "r",
    "s", "o", "n", "a", "l", "i", "z", "e", "d", " ", "a", "n", "d", " ",
    "c", "o", "n", "t", "e", "x", "t", "u", "a", "l", "l", "y", " ", "a",
    "w", "a", "r", "e", " ", "r", "e", "s", "p", "o", "n", "s", "e", "s",
    ".">>

\* relevantMemories.map(m => `[${m.metadata.type.toUpperCase()}] ${m.content}`).join('\n\n')
RECURSIVE memoryContext(_)
memoryContext(memories) ==
    IF memories = <<>> THEN <<>>
    ELSE LET line == <<"[">> \o toUpperCase(TypeChars(memories[1].type))
                     \o <<"]", " ">> \o memories[1].content
         IN  IF Len(memories) = 1 THEN line
             ELSE line \o <<"\n", "\n">> \o memoryContext(Tail(memories))

\* variant: the memory message is put after the posted messages
withMemory_Appended(merged, relevantMemories) ==
    IF Len(relevantMemories) > 0
    THEN merged \o <<SystemMsg(MemoryHeader \o memoryContext(relevantMemories) \o MemoryFooter)>>
    ELSE merged

\* withMemory: the posted messages, after one system message when memories were found
withMemory(merged, relevantMemories) ==
    IF Len(relevantMemories) > 0
    THEN <<SystemMsg(MemoryHeader \o memoryContext(relevantMemories) \o MemoryFooter)>>
         \o merged
    ELSE merged

\* coreMessages: role and content of the trimmed list, handed to streamText
coreMessages(merged, relevantMemories, maxTokens) ==
    LET pruned == trimHistory(withMemory(merged, relevantMemories), maxTokens)
    IN  [i \in 1..Len(pruned) |-> [content |-> pruned[i].content, role |-> pruned[i].role]]

\* what can go wrong during one request to the chat route: nothing, the
\* database is unreachable, a write of extractKeyInfo rejects, streamText
\* rejects, or saving the user message fails
ChatFailures == {"none", "store", "extract", "model", "userSave"}
\* what can go wrong when the final text arrives: nothing, saving the
\* assistant message fails, or addMemory fails
CompletionFailures == {"none", "assistantSave", "memory"}

-----------------------------------------------------------------------------
(* The client at rest *)

\* JavaScript null, where strings are held and where ids are held
Null == "null"
NoId == 0

\* the two clients: the component of src/components/ChatUI.tsx, and the
\* refactored ChatUI that takes its state from the useChat hook
Component == "component"
Hook == "hook"

\* the useState and useRef initial values
NoClientActivity ==
    /\ uiMessages = <<>>
    /\ isLoading = FALSE
    /\ error = Null
    /\ conversationId = Null
    /\ localInput = <<>>
    /\ editingId = NoId
    /\ abortRef = NoId
    /\ requests = <<>>
    /\ nextId = 1

\* the store and the route on their own: the client stays at rest
ClientIdle ==
    /\ impl = Component
    /\ NoClientActivity

-----------------------------------------------------------------------------
(* Operations *)

Init ==
    /\ \E n \in HistorySizes :
          \/ /\ n = 0
             /\ conversation = NoConversation
             /\ messages = <<>>
          \/ /\ conversation = NewConversation(StrAB)
             /\ messages = History(n)
    /\ nextMemId = 1
    /\ opCount = 0
    /\ inflight = 0
    /\ last = [op |-> "none"]
    /\ simQuery = <<>>
    /\ simContent = <<>>
    /\ simScore = Frac(0, 1)
    /\ calls = {}
    /\ ClientIdle

\* Mem0Client.addMemory, also POST /api/memory
AddMemory(content, type, importance) ==
    /\ conversation' = updateConversationMemory(conversation,
                            MemoryEntry(nextMemId, content, type, importance))
    /\ nextMemId' = nextMemId + 1
    /\ opCount' = opCount + 1
    /\ last' = [op |-> "addMemory", content |-> content, type |-> type,
                importance |-> importance, before |-> conversation,
                beforeMessages |-> messages, memoryId |-> nextMemId]
    /\ UNCHANGED <<messages, inflight, simVars, calls, clientVars>>

\* Mem0Client.deleteMemory, also DELETE /api/memory
DeleteMemory(memoryId) ==
    /\ conversation' = deleteMemory(conversation, memoryId)
    /\ opCount' = opCount + 1
    /\ last' = [op |-> "deleteMemory", memoryId |-> memoryId, before |-> conversation,
                beforeMessages |-> messages]
    /\ UNCHANGED <<messages, nextMemId, inflight, simVars, calls, clientVars>>

\* the legacy storeMemory
StoreMemory(content) ==
    /\ conversation' = storeMemory(conversation, content)
    /\ opCount' = opCount + 1
    /\ last' = [op |-> "storeMemory", content |-> content, before |-> conversation]
    /\ UNCHANGED <<messages, nextMemId, inflight, simVars, calls, clientVars>>

\* Mem0Client.extractKeyInfo
ExtractKeyInfo(msgs) ==
    /\ LET adds == extractedMemories(msgs)
       IN  /\ conversation' = addMemories(conversation, adds, nextMemId)
           /\ nextMemId' = nextMemId + Len(adds)
    /\ opCount' = opCount + 1
    /\ last' = [op |-> "extractKeyInfo", msgs |-> msgs, before |-> conversation]
    /\ UNCHANGED <<messages, inflight, simVars, calls, clientVars>>

\* Mem0Client.searchMemories, also GET /api/memory
SearchMemories(query, limit, minScore) ==
    /\ last' = [op |-> "searchMemories", query |-> query, limit |-> limit,
                minScore |-> minScore,
                result |-> searchMemories(conversation, messages, UserId,
                                          query, limit, minScore)]
    /\ UNCHANGED <<conversation, messages, nextMemId, opCount, inflight, simVars, calls, clientVars>>

\* Mem0Client.getAllMemories
GetAllMemories ==
    /\ last' = [op |-> "getAllMemories",
                result |-> searchMemories(conversation, messages, UserId,
                                          StrEmpty, AllLimit, Frac(0, 1))]
    /\ UNCHANGED <<conversation, messages, nextMemId, opCount, inflight, simVars, calls, clientVars>>

\* POST /api/chat up to the response.  The steps in the order of the source:
\* connectToDatabase; the conversation is created when no id is sent;
\* extractKeyInfo over the posted messages; searchMemories; the memory message
\* is put in front and the list is trimmed; streamText is awaited; then the
\* last message is saved when it is a user message; then the handler of the
\* final text is registered.  A rejection outside the try block of the user
\* message save reaches the outer catch, which answers 500.
ChatPost(msgs, withId, maxTokens, failure) ==
    /\ withId \/ ~conversation.exists
    /\ LET title   == IF msgs # <<>> /\ StrSlice(msgs[1].content, TitleLength) # <<>>
                      THEN StrSlice(msgs[1].content, TitleLength)
                      ELSE NewChatTitle
           convo   == IF withId THEN conversation ELSE NewConversation(title)
           adds    == extractedMemories(msgs)
           after   == addMemories(convo, adds, nextMemId)
           relevantMemories == searchMemories(after, messages, UserId,
                                              join(msgs), ChatLimit, ChatMinScore)
           lastMsg == msgs[Len(msgs)]
           \* Message.create rejects an empty content (required: true)
           saved   == /\ failure = "none"
                      /\ msgs # <<>>
                      /\ lastMsg.role = "user"
                      /\ lastMsg.content # <<>>
           call    == [op |-> "chat", msgs |-> msgs, withId |-> withId,
                       maxTokens |-> maxTokens, failure |-> failure,
                       before |-> conversation, beforeMessages |-> messages]
       IN  IF failure = "store"
           THEN /\ last' = call @@ [relevantMemories |-> <<>>, modelCalled |-> FALSE,
                                    modelInput |-> <<>>, userSaved |-> FALSE,
                                    status |-> 500]
                /\ UNCHANGED <<conversation, nextMemId, messages, inflight>>
           ELSE IF failure = "extract"
           \* the k-th addMemory of extractKeyInfo rejects: the entries before
           \* it are written, its id is spent, the rejection leaves both loops
           \* and reaches the outer catch
           THEN \E k \in 1..Len(adds) :
                /\ conversation' = addMemories(convo, SubSeq(adds, 1, k - 1), nextMemId)
                /\ nextMemId' = nextMemId + k
                /\ last' = call @@ [relevantMemories |-> <<>>, modelCalled |-> FALSE,
                                    modelInput |-> <<>>, userSaved |-> FALSE,
                                    status |-> 500, failedAt |-> k]
                /\ UNCHANGED <<messages, inflight>>
           ELSE /\ conversation' = after
                /\ nextMemId' = nextMemId + Len(adds)
                /\ messages' = IF saved
                               THEN Append(messages, [content |-> lastMsg.content,
                                                      role |-> "user",
                                                      userId |-> UserId])
                               ELSE messages
                /\ inflight' = IF failure = "model" THEN inflight ELSE inflight + 1
                /\ last' = call @@ [relevantMemories |-> relevantMemories,
                                    modelCalled |-> TRUE,
                                    modelInput |-> coreMessages(msgs, relevantMemories,
                                                                maxTokens),
                                    userSaved |-> saved,
                                    status |-> IF failure = "model" THEN 500 ELSE 200]
    /\ opCount' = opCount + 1
    /\ UNCHANGED <<simVars, calls, clientVars>>

\* variant: the context entry is added before the assistant message is saved
AssistantComplete_EntryFirst(finalText, failure) ==
    /\ inflight > 0
    /\ inflight' = inflight - 1
    /\ LET added == failure # "memory"
           saved == added /\ failure # "assistantSave" /\ finalText # <<>>
       IN  /\ messages' = IF saved
                          THEN Append(messages, [content |-> finalText,
                                                 role |-> "assistant",
                                                 userId |-> UserId])
                          ELSE messages
           /\ conversation' = IF added
                              THEN updateConversationMemory(conversation,
                                       MemoryEntry(nextMemId, AssistantPrefix \o finalText,
                                                   "context", ResponseImportance))
                              ELSE conversation
           /\ nextMemId' = nextMemId + 1
    /\ last' = [op |-> "assistantComplete", finalText |-> finalText,
                failure |-> failure, before |-> conversation,
                beforeMessages |-> messages, memoryId |-> nextMemId]
    /\ UNCHANGED <<opCount, simVars, calls, clientVars>>

\* result.text resolves with the final text: the assistant message is saved,
\* then one context entry is added; a rejection of either is caught and logged
AssistantComplete(finalText, failure) ==
    /\ inflight > 0
    /\ inflight' = inflight - 1
    /\ LET saved == failure # "assistantSave" /\ finalText # <<>>
           added == saved /\ failure # "memory"
       IN  /\ messages' = IF saved
                          THEN Append(messages, [content |-> finalText,
                                                 role |-> "assistant",
                                                 userId |-> UserId])
                          ELSE messages
           /\ conversation' = IF added
                              THEN updateConversationMemory(conversation,
                                       MemoryEntry(nextMemId, AssistantPrefix \o finalText,
                                                   "context", ResponseImportance))
                              ELSE conversation
           /\ nextMemId' = IF saved THEN nextMemId + 1 ELSE nextMemId
    /\ last' = [op |-> "assistantComplete", finalText |-> finalText,
                failure |-> failure, before |-> conversation,
                beforeMessages |-> messages, memoryId |-> nextMemId]
    /\ UNCHANGED <<opCount, simVars, calls, clientVars>>

\* variant: the text received so far is saved when the generation stops
AssistantAbort_SavesPartial ==
    /\ inflight > 0
    /\ inflight' = inflight - 1
    /\ messages' = Append(messages, [content |-> StrA,
                                     role |-> "assistant",
                                     userId |-> UserId])
    /\ last' = [op |-> "assistantAbort", before |-> conversation,
                beforeMessages |-> messages]
    /\ UNCHANGED <<conversation, nextMemId, opCount, simVars, calls, clientVars>>

\* result.text rejects (generation aborted or failed): nothing is saved
AssistantAbort ==
    /\ inflight > 0
    /\ inflight' = inflight - 1
    /\ last' = [op |-> "assistantAbort", before |-> conversation,
                beforeMessages |-> messages]
    /\ UNCHANGED <<conversation, messages, nextMemId, opCount, simVars, calls, clientVars>>

Next ==
    \/ opCount < MaxOps /\ \E c \in MemContents, t \in MemoryTypes, i \in Importances : AddMemory(c, t, i)
    \/ opCount < MaxOps /\ \E id \in MemoryIds : DeleteMemory(id)
    \/ opCount < MaxOps /\ \E c \in MemContents : StoreMemory(c)
    \/ opCount < MaxOps /\ \E msgs \in ChatInputs : ExtractKeyInfo(msgs)
    \/ opCount < MaxOps /\ \E msgs \in ChatInputs, withId \in BOOLEAN : ChatPost(msgs, withId, DefaultMaxTokens, "none")
    \/ \E q \in Queries, l \in Limits, m \in MinScores : SearchMemories(q, l, m)
    \/ GetAllMemories
    \/ \E t \in FinalTexts : AssistantComplete(t, "none")
    \/ AssistantAbort

Spec == Init /\ [][Next]_vars

-----------------------------------------------------------------------------
(* The summary under long contents: the calls that write the record *)

InitSummary ==
    /\ conversation = NewConversation(StrAB)
    /\ messages = <<>>
    /\ nextMemId = 1
    /\ opCount = 0
    /\ inflight = 0
    /\ last = [op |-> "none"]
    /\ simQuery = <<>>
    /\ simContent = <<>>
    /\ simScore = Frac(0, 1)
    /\ calls = {}
    /\ ClientIdle

NextSummary ==
    \/ opCount < MaxSummaryOps /\ \E c \in LongContents, t \in MemoryTypes, i \in Importances : AddMemory(c, t, i)
    \/ opCount < MaxSummaryOps /\ \E id \in MemoryIds : DeleteMemory(id)
    \/ opCount < MaxSummaryOps /\ \E c \in LongContents : StoreMemory(c)
    \/ opCount < MaxSummaryOps /\ \E msgs \in ChatInputs : ExtractKeyInfo(msgs)

SpecSummary == InitSummary /\ [][NextSummary]_vars

-----------------------------------------------------------------------------
(* Retrieval over a long message history *)

InitRecent ==
    /\ conversation = NewConversation(StrAB)
    /\ \E n \in RecentSizes : messages = History(n)
    /\ nextMemId = 1
    /\ opCount = 0
    /\ inflight = 0
    /\ last = [op |-> "none"]
    /\ simQuery = <<>>
    /\ simContent = <<>>
    /\ simScore = Frac(0, 1)
    /\ calls = {}
    /\ ClientIdle

NextRecent ==
    \/ opCount < MaxRecentOps /\ \E c \in MemContents, t \in MemoryTypes, i \in Importances : AddMemory(c, t, i)
    \/ opCount < MaxRecentOps /\ \E msgs \in ChatInputs : ChatPost(msgs, TRUE, DefaultMaxTokens, "none")
    \/ \E q \in Queries, l \in RecentLimits : SearchMemories(q, l, Frac(0, 1))
    \/ GetAllMemories
    \/ \E t \in FinalTexts : AssistantComplete(t, "none")
    \/ AssistantAbort

SpecRecent == InitRecent /\ [][NextRecent]_vars

-----------------------------------------------------------------------------
(* The similarity function on its own *)

SimStrings == {StrEmpty, <<" ">>, StrA, StrB, StrSpA, StrASp, StrAB,
               <<"A">>, <<"a", " ", "a">>, <<"b", " ", "a">>,
               <<"a", " ", " ", "b">>, <<"\n", "a", "\n", "c">>,
               <<"A", " ", "b", " ", "c">>, <<"a", " ", "a", " ", "c">>}

CalculateSimilarity(query, content) ==
    /\ simQuery' = query
    /\ simContent' = content
    /\ simScore' = calculateSimilarity(query, content)
    /\ UNCHANGED <<storeVars, calls, clientVars>>

InitSim ==
    /\ conversation = NoConversation
    /\ messages = <<>>
    /\ nextMemId = 1
    /\ opCount = 0
    /\ inflight = 0
    /\ last = [op |-> "none"]
    /\ simQuery = StrA
    /\ simContent = StrA
    /\ simScore = calculateSimilarity(StrA, StrA)
    /\ calls = {}
    /\ ClientIdle

NextSim == \E q \in SimStrings, c \in SimStrings : CalculateSimilarity(q, c)

SpecSim == InitSim /\ [][NextSim]_vars

-----------------------------------------------------------------------------
(* trimHistory on its own *)

\* a list of n messages with pairwise different contents
TrimList(n) ==
    [i \in 1..n |-> IF i % 2 = 1 THEN UserMsg(Repeat("a", i))
                                 ELSE AssistantMsg(Repeat("a", i))]

TrimTokens == {-1000, -1, 0, 499, 3000, 3499, 3500, DefaultMaxTokens, 8499}

TrimHistory(msgs, maxTokens) ==
    /\ last' = [op |-> "trimHistory", messages |-> msgs, maxTokens |-> maxTokens,
                result |-> trimHistory(msgs, maxTokens)]
    /\ UNCHANGED <<conversation, messages, nextMemId, opCount, inflight, simVars, calls, clientVars>>

InitTrim ==
    /\ conversation = NoConversation
    /\ messages = <<>>
    /\ nextMemId = 1
    /\ opCount = 0
    /\ inflight = 0
    /\ last = [op |-> "none"]
    /\ simQuery = <<>>
    /\ simContent = <<>>
    /\ simScore = Frac(0, 1)
    /\ calls = {}
    /\ ClientIdle

NextTrim == \E n \in 0..MaxTrimLen, t \in TrimTokens : TrimHistory(TrimList(n), t)

SpecTrim == InitTrim /\ [][NextTrim]_vars

-----------------------------------------------------------------------------
(* Chat turns with their failures *)

\* a posted history of n messages, user and assistant turns alternating
TurnList(n) == [i \in 1..n |-> IF i % 2 = 1 THEN UserMsg(StrAB) ELSE AssistantMsg(StrB)]

\* maxTokens for which trimHistory keeps 6 and 7 messages
SixMessages == 3000
SevenMessages == 3500

\* the requests posted to the chat route: messages and maxTokens
TurnRequests == {
    [messages |-> <<>>, maxTokens |-> DefaultMaxTokens],
    [messages |-> <<UserMsg(StrILikeA)>>, maxTokens |-> DefaultMaxTokens],
    [messages |-> TurnList(5), maxTokens |-> SixMessages],
    [messages |-> TurnList(6), maxTokens |-> SixMessages],
    [messages |-> TurnList(7), maxTokens |-> SixMessages],
    [messages |-> TurnList(7), maxTokens |-> SevenMessages] }

ChatFinalTexts == {StrB, StrEmpty}

NextChat ==
    \/ opCount < MaxTurns /\ \E r \in TurnRequests, withId \in BOOLEAN, f \in ChatFailures :
          ChatPost(r.messages, withId, r.maxTokens, f)
    \/ \E t \in ChatFinalTexts, f \in CompletionFailures : AssistantComplete(t, f)
    \/ AssistantAbort

SpecChat == Init /\ [][NextChat]_vars

-----------------------------------------------------------------------------
(* The writers of memory entries *)

StrTwoPreferences == <<"I", " ", "L", "I", "K", "E", " ", "a", " ", "a", "n", "d", " ", "I", " ", "w", "a", "n", "t", " ", "b">>
StrTwoFacts == <<"R", "e", "m", "e", "m", "b", "e", "r", ":", " ", "i", "m", "p", "o", "r", "t", "a", "n", "t", " ", "b">>

\* message lists handed to extractKeyInfo
ExtractInputs == {
    <<>>,
    <<UserMsg(StrAB), AssistantMsg(StrB)>>,
    <<UserMsg(StrILikeA), UserMsg(StrILikeA)>>,
    <<AssistantMsg(StrTwoFacts)>>,
    <<UserMsg(StrTwoPreferences), AssistantMsg(StrNoteB), SystemMsg(StrILikeA),
      AssistantMsg(StrILikeA), UserMsg(StrNoteB), UserMsg(StrAB), UserMsg(StrILikeA)>> }

\* type and importance as a client may post them to /api/memory: unchecked
PostedTypes == MemoryTypes \cup {"note"}
PostedImportances == {0, 5, 7, 11}

NextEntries ==
    \/ opCount < MaxEntryOps /\ \E c \in MemContents, t \in PostedTypes, i \in PostedImportances : AddMemory(c, t, i)
    \/ opCount < MaxEntryOps /\ \E msgs \in ExtractInputs : ExtractKeyInfo(msgs)
    \/ opCount < MaxEntryOps /\ \E id \in 1..3 : DeleteMemory(id)
    \/ opCount < MaxEntryOps /\ ChatPost(<<UserMsg(StrILikeA)>>, TRUE, DefaultMaxTokens, "none")
    \/ \E f \in CompletionFailures : AssistantComplete(StrB, f)
    \/ AssistantAbort

SpecEntries == Init /\ [][NextEntries]_vars

-----------------------------------------------------------------------------
(* Chat turns whose extraction fails *)

ExtractFailures == {"none", "extract"}

NextExtract ==
    \/ opCount < MaxExtractTurns /\ \E msgs \in ExtractInputs, withId \in BOOLEAN, f \in ExtractFailures :
          ChatPost(msgs, withId, DefaultMaxTokens, f)
    \/ AssistantComplete(StrB, "none")
    \/ AssistantAbort

SpecExtract == Init /\ [][NextExtract]_vars

-----------------------------------------------------------------------------
(* The /api/memory route as called by two authenticated users *)

\* the conversation and its messages belong to UserId; OtherUser is a second
\* authenticated user who sends the same conversation id
OtherUser == "u2"
Users == {UserId, OtherUser}

\* searchParams defaults of GET /api/memory: limit 10, minScore 0.3
RouteLimit == 10
RouteMinScore == Frac(3, 10)

\* GET /api/memory: createMem0Client(userId, conversationId).searchMemories
MemoryGet(userId, query) ==
    /\ last' = [op |-> "memoryGet", userId |-> userId, query |-> query,
                before |-> conversation, beforeMessages |-> messages,
                result |-> searchMemories(conversation, messages, userId,
                                          query, RouteLimit, RouteMinScore)]
    /\ UNCHANGED <<conversation, messages, nextMemId, opCount, inflight, simVars, calls, clientVars>>

\* POST /api/memory: createMem0Client(userId, conversationId).addMemory
MemoryPost(userId, content, type, importance) ==
    /\ conversation' = updateConversationMemory(conversation,
                            MemoryEntry(nextMemId, content, type, importance))
    /\ nextMemId' = nextMemId + 1
    /\ opCount' = opCount + 1
    /\ last' = [op |-> "memoryPost", userId |-> userId, content |-> content,
                type |-> type, importance |-> importance,
                before |-> conversation, beforeMessages |-> messages,
                memoryId |-> nextMemId]
    /\ UNCHANGED <<messages, inflight, simVars, calls, clientVars>>

\* DELETE /api/memory: createMem0Client(userId, conversationId).deleteMemory
MemoryDelete(userId, memoryId) ==
    /\ conversation' = deleteMemory(conversation, memoryId)
    /\ opCount' = opCount + 1
    /\ last' = [op |-> "memoryDelete", userId |-> userId, memoryId |-> memoryId,
                before |-> conversation, beforeMessages |-> messages]
    /\ UNCHANGED <<messages, nextMemId, inflight, simVars, calls, clientVars>>

NextOwner ==
    \/ opCount < MaxOwnerOps /\ \E u \in Users, c \in MemContents, t \in MemoryTypes, i \in Importances :
          MemoryPost(u, c, t, i)
    \/ opCount < MaxOwnerOps /\ \E u \in Users, id \in MemoryIds : MemoryDelete(u, id)
    \/ \E u \in Users, q \in Queries : MemoryGet(u, q)

SpecOwner == Init /\ [][NextOwner]_vars

-----------------------------------------------------------------------------
(* addMemory and deleteMemory step by step: the read and the write of a call
   are two awaits, and other calls on the same conversation run in between *)

ConcurrentContents == {StrA, StrB}

Pending(cs) == {c \in cs : ~c.done}

\* addMemory up to the findById of updateConversationMemory
AddMemoryRead(content, type, importance) ==
    /\ calls' = calls \cup
          {[memory |-> MemoryEntry(nextMemId, content, type, importance),
            read |-> conversation, call |-> opCount + 1, done |-> FALSE,
            kind |-> "add", overlap |-> Pending(calls) # {}]}
    /\ nextMemId' = nextMemId + 1
    /\ opCount' = opCount + 1
    /\ last' = [op |-> "addMemoryRead", before |-> conversation]
    /\ UNCHANGED <<conversation, messages, inflight, simVars, clientVars>>

\* the findByIdAndUpdate of updateConversationMemory; addMemory returns the id
AddMemoryWrite(c) ==
    /\ c.kind = "add" /\ ~c.done
    /\ conversation' = writeMemory(conversation, c.read, c.memory)
    /\ calls' = (calls \ {c}) \cup
          {[c EXCEPT !.done = TRUE,
                     !.overlap = c.overlap \/ Pending(calls \ {c}) # {}]}
    /\ last' = [op |-> "addMemoryWrite", call |-> c, before |-> conversation]
    /\ UNCHANGED <<messages, nextMemId, opCount, inflight, simVars, clientVars>>

\* deleteMemory up to its findById
DeleteMemoryRead(memoryId) ==
    /\ calls' = calls \cup
          {[read |-> conversation, memoryId |-> memoryId, call |-> opCount + 1,
            done |-> FALSE, kind |-> "delete", overlap |-> Pending(calls) # {}]}
    /\ opCount' = opCount + 1
    /\ last' = [op |-> "deleteMemoryRead", before |-> conversation]
    /\ UNCHANGED <<conversation, messages, nextMemId, inflight, simVars, clientVars>>

\* the findByIdAndUpdate of deleteMemory; deleteMemory returns
DeleteMemoryWrite(c) ==
    /\ c.kind = "delete" /\ ~c.done
    /\ conversation' = writeFiltered(conversation, c.read, c.memoryId)
    /\ calls' = (calls \ {c}) \cup
          {[c EXCEPT !.done = TRUE,
                     !.overlap = c.overlap \/ Pending(calls \ {c}) # {}]}
    /\ last' = [op |-> "deleteMemoryWrite", call |-> c, before |-> conversation]
    /\ UNCHANGED <<messages, nextMemId, opCount, inflight, simVars, clientVars>>

\* a conversation that holds one important entry, or no record at all
InitConcurrent ==
    /\ \/ /\ conversation = updateConversationMemory(NewConversation(StrAB),
                                MemoryEntry(1, StrNoteB, "fact", UserImportance))
          /\ nextMemId = 2
       \/ /\ conversation = NoConversation
          /\ nextMemId = 1
    /\ messages = <<>>
    /\ opCount = 0
    /\ inflight = 0
    /\ last = [op |-> "none"]
    /\ simQuery = <<>>
    /\ simContent = <<>>
    /\ simScore = Frac(0, 1)
    /\ calls = {}
    /\ ClientIdle

NextConcurrent ==
    \/ opCount < MaxCalls /\ \E c \in ConcurrentContents, i \in Importances : AddMemoryRead(c, "fact", i)
    \/ opCount < MaxCalls /\ \E id \in MemoryIds : DeleteMemoryRead(id)
    \/ \E c \in calls : AddMemoryWrite(c)
    \/ \E c \in calls : DeleteMemoryWrite(c)

SpecConcurrent == InitConcurrent /\ [][NextConcurrent]_vars

-----------------------------------------------------------------------------
(* The client: the message list on screen and the requests that stream into it *)

StrX == <<"x">>

\* the text streamed by request r stands for itself: one chunk is the digit r
Digits == <<"1", "2", "3", "4", "5", "6", "7", "8", "9">>
ChunkOf(r) == <<Digits[r]>>

\* the messages GET /api/conversations/<id>/messages returns for the
\* conversation in the sidebar, and the id of that conversation
LoadedId == "c2"
LoadedMessages ==
    << [content |-> StrX, role |-> "user", id |-> -1],
       [content |-> <<"L">>, role |-> "assistant", id |-> -2] >>

\* the id the chat route gives a conversation it creates
CreatedId == "c1"

\* String(err) of a rejected fetch, of the Error streamAssistant throws, and
\* of the AbortError of an aborted fetch or read
ErrApi == "Error: API Error"
ErrStream == "Error: Failed to stream response"
ErrAbort == "AbortError: The user aborted a request."
ErrLoad == "Failed to load conversation"

NoEvent == [name |-> "none"]

\* controller.abort(): a pending fetch or read of the request will reject
Abort(reqs, ref) ==
    IF ref # NoId /\ reqs[ref].phase \in {"fetching", "streaming"}
    THEN [reqs EXCEPT ![ref].aborted = TRUE]
    ELSE reqs

\* abortRef.current?.abort() before the new controller: only in ChatUI.tsx
PreviousAborted(reqs, ref) ==
    IF impl = Component THEN Abort(reqs, ref) ELSE reqs

NewRequest(kind) ==
    [conversationId |-> conversationId, kind |-> kind, phase |-> "fetching",
     aborted |-> FALSE, stale |-> FALSE, chunks |-> 0]

\* the updater of setMessages in the read loop of streamAssistant
appendChunk(prev, chunk) ==
    LET idx == Len(prev)
    IN  IF idx >= 1 /\ prev[idx].role = "assistant"
        THEN [prev EXCEPT ![idx].content = prev[idx].content \o chunk]
        ELSE IF impl = Component
             THEN prev
             ELSE prev \o << [content |-> chunk, role |-> "assistant", id |-> nextId] >>

\* onChange of the composer
TypeInput ==
    /\ localInput = <<>>
    /\ localInput' = StrX
    /\ last' = [op |-> "typeInput", event |-> NoEvent]
    /\ UNCHANGED <<conversation, messages, nextMemId, opCount, inflight, simVars, calls, impl, uiMessages, isLoading, error, conversationId,
                   editingId, abortRef, requests, nextId>>

\* handleSend up to the fetch of streamAssistant
HandleSend ==
    /\ localInput # <<>>
    /\ Len(requests) < MaxRequests
    /\ uiMessages' = uiMessages \o
          << [content |-> localInput, role |-> "user", id |-> nextId],
             [content |-> <<>>, role |-> "assistant", id |-> nextId + 1] >>
    /\ nextId' = nextId + 2
    /\ error' = Null
    /\ isLoading' = TRUE
    /\ localInput' = <<>>
    /\ requests' = Append(PreviousAborted(requests, abortRef), NewRequest("send"))
    /\ abortRef' = Len(requests) + 1
    /\ last' = [op |-> "handleSend", event |-> NoEvent]
    /\ UNCHANGED <<conversation, messages, nextMemId, opCount, inflight, simVars, calls, impl, conversationId, editingId>>

\* handleEdit of a user message
HandleEdit(i) ==
    /\ uiMessages[i].role = "user"
    /\ IF impl = Hook /\ editingId = uiMessages[i].id
       THEN /\ editingId' = NoId
            /\ localInput' = <<>>
       ELSE /\ editingId' = uiMessages[i].id
            /\ localInput' = uiMessages[i].content
    /\ last' = [op |-> "handleEdit", event |-> NoEvent]
    /\ UNCHANGED <<conversation, messages, nextMemId, opCount, inflight, simVars, calls, impl, uiMessages, isLoading, error, conversationId,
                   abortRef, requests, nextId>>

\* confirmEditAndRegenerate up to the fetch of streamAssistant
ConfirmEditAndRegenerate ==
    /\ editingId # NoId
    /\ Len(requests) < MaxRequests
    /\ \E idx \in 1..Len(uiMessages) :
          /\ uiMessages[idx].id = editingId
          /\ uiMessages' = [SubSeq(uiMessages, 1, idx) EXCEPT ![idx].content = localInput]
    /\ editingId' = NoId
    /\ error' = Null
    /\ isLoading' = TRUE
    /\ localInput' = IF impl = Hook THEN <<>> ELSE localInput
    /\ requests' = Append(PreviousAborted(requests, abortRef), NewRequest("edit"))
    /\ abortRef' = Len(requests) + 1
    /\ last' = [op |-> "confirmEditAndRegenerate", event |-> NoEvent]
    /\ UNCHANGED <<conversation, messages, nextMemId, opCount, inflight, simVars, calls, impl, conversationId, nextId>>

\* regenerateLast up to the fetch of streamAssistant.  ChatUI.tsx shows the
\* button when messages.length > 0 && !isLoading, the message list of the
\* refactored client shows it under an assistant message.
RegenerateLast ==
    /\ uiMessages # <<>>
    /\ impl = Component => ~isLoading
    /\ Len(requests) < MaxRequests
    /\ LET users == {i \in 1..Len(uiMessages) : uiMessages[i].role = "user"}
           lastUserIndex == CHOOSE i \in users : \A j \in users : j <= i
       IN  IF impl = Hook /\ users = {}
           THEN /\ error' = Null
                /\ UNCHANGED <<uiMessages, isLoading, requests, abortRef>>
           ELSE /\ uiMessages' = IF impl = Hook THEN SubSeq(uiMessages, 1, lastUserIndex)
                                                ELSE uiMessages
                /\ error' = Null
                /\ isLoading' = TRUE
                /\ requests' = Append(PreviousAborted(requests, abortRef),
                                      NewRequest("regenerate"))
                /\ abortRef' = Len(requests) + 1
    /\ last' = [op |-> "regenerateLast", event |-> NoEvent]
    /\ UNCHANGED <<conversation, messages, nextMemId, opCount, inflight, simVars, calls, impl, conversationId, localInput, editingId, nextId>>

\* startNewChat
StartNewChat ==
    /\ uiMessages' = <<>>
    /\ localInput' = <<>>
    /\ editingId' = NoId
    /\ conversationId' = Null
    /\ error' = Null
    /\ isLoading' = IF impl = Component THEN FALSE ELSE isLoading
    /\ requests' = Abort(requests, abortRef)
    /\ last' = [op |-> "startNewChat", event |-> NoEvent]
    /\ UNCHANGED <<conversation, messages, nextMemId, opCount, inflight, simVars, calls, impl, abortRef, nextId>>

\* loadConversation up to its fetch: no controller, nothing is aborted
LoadConversation ==
    /\ Len(requests) < MaxRequests
    /\ error' = Null
    /\ isLoading' = IF impl = Component THEN TRUE ELSE isLoading
    /\ requests' = Append(requests, NewRequest("load"))
    /\ last' = [op |-> "loadConversation", event |-> NoEvent]
    /\ UNCHANGED <<conversation, messages, nextMemId, opCount, inflight, simVars, calls, impl, uiMessages, conversationId, localInput,
                   editingId, abortRef, nextId>>

\* the fetch of loadConversation resolves: the messages replace the list.  A
\* request that is still running was started before this conversation was
\* loaded, which `stale` remembers.
LoadResolves(r, ok) ==
    /\ requests[r].kind = "load" /\ requests[r].phase = "fetching"
    /\ IF ok
       THEN /\ uiMessages' = LoadedMessages
            /\ conversationId' = LoadedId
            /\ error' = error
       ELSE /\ error' = ErrLoad
            /\ UNCHANGED <<uiMessages, conversationId>>
    /\ isLoading' = IF impl = Component THEN FALSE ELSE isLoading
    /\ requests' = [q \in 1..Len(requests) |->
                      IF q = r THEN [requests[q] EXCEPT !.phase = "done"]
                      ELSE IF ok /\ requests[q].phase \in {"fetching", "streaming"}
                           THEN [requests[q] EXCEPT !.stale = TRUE]
                           ELSE requests[q]]
    /\ last' = [last EXCEPT !.event = [name |-> "loaded", request |-> r]]
    /\ UNCHANGED <<conversation, messages, nextMemId, opCount, inflight, simVars, calls, impl, localInput, editingId, abortRef, nextId>>

\* streamAssistant rejects with err.  ChatUI.tsx: catch sets the error,
\* finally clears isLoading, handleSend then clears editingId.  The hook and
\* its callers have no catch and no finally: the rejection is unhandled.
Failed(r, err) ==
    /\ IF impl = Component
       THEN /\ error' = err
            /\ isLoading' = FALSE
            /\ editingId' = IF requests[r].kind = "send" THEN NoId ELSE editingId
       ELSE UNCHANGED <<error, isLoading, editingId>>
    /\ requests' = [requests EXCEPT ![r].phase = "failed"]
    /\ last' = [last EXCEPT !.event = [failure |-> err, name |-> "failed", request |-> r]]

\* the fetch of streamAssistant resolves: the x-conversation-id header is
\* taken first, then a response that is not ok or has no body is thrown
FetchResolves(r, outcome) ==
    /\ requests[r].kind # "load" /\ requests[r].phase = "fetching"
    /\ ~requests[r].aborted
    /\ conversationId' =
          IF outcome = "notOk" THEN conversationId
          ELSE IF requests[r].conversationId = Null THEN CreatedId
          ELSE requests[r].conversationId
    /\ IF outcome = "ok"
       THEN /\ requests' = [requests EXCEPT ![r].phase = "streaming"]
            /\ last' = [last EXCEPT !.event = [name |-> "response", request |-> r]]
            /\ UNCHANGED <<error, isLoading, editingId>>
       ELSE Failed(r, ErrStream)
    /\ UNCHANGED <<conversation, messages, nextMemId, opCount, inflight, simVars, calls, impl, uiMessages, localInput, abortRef, nextId>>

\* the fetch of streamAssistant rejects (network error)
FetchRejects(r) ==
    /\ requests[r].kind # "load" /\ requests[r].phase = "fetching"
    /\ ~requests[r].aborted
    /\ Failed(r, ErrApi)
    /\ UNCHANGED <<conversation, messages, nextMemId, opCount, inflight, simVars, calls, impl, uiMessages, conversationId, localInput,
                   abortRef, nextId>>

\* the pending fetch or read of an aborted request rejects with an AbortError
AbortRejects(r) ==
    /\ requests[r].phase \in {"fetching", "streaming"}
    /\ requests[r].aborted
    /\ Failed(r, ErrAbort)
    /\ UNCHANGED <<conversation, messages, nextMemId, opCount, inflight, simVars, calls, impl, uiMessages, conversationId, localInput,
                   abortRef, nextId>>

\* reader.read() resolves with a chunk
ChunkArrives(r) ==
    /\ requests[r].phase = "streaming"
    /\ ~requests[r].aborted
    /\ requests[r].chunks < MaxChunks
    /\ uiMessages' = appendChunk(uiMessages, ChunkOf(r))
    /\ nextId' = IF Len(uiMessages') > Len(uiMessages) THEN nextId + 1 ELSE nextId
    /\ requests' = [requests EXCEPT ![r].chunks = @ + 1]
    /\ last' = [last EXCEPT !.event = [name |-> "chunk", request |-> r]]
    /\ UNCHANGED <<conversation, messages, nextMemId, opCount, inflight, simVars, calls, impl, isLoading, error, conversationId, localInput,
                   editingId, abortRef>>

\* reader.read() resolves with done: streamAssistant returns
StreamDone(r) ==
    /\ requests[r].phase = "streaming"
    /\ ~requests[r].aborted
    /\ isLoading' = FALSE
    /\ editingId' = IF impl = Component /\ requests[r].kind = "send" THEN NoId ELSE editingId
    /\ requests' = [requests EXCEPT ![r].phase = "done"]
    /\ last' = [last EXCEPT !.event = [name |-> "done", request |-> r]]
    /\ UNCHANGED <<conversation, messages, nextMemId, opCount, inflight, simVars, calls, impl, uiMessages, error, conversationId, localInput,
                   abortRef, nextId>>

InitClient ==
    /\ conversation = NoConversation
    /\ messages = <<>>
    /\ nextMemId = 1
    /\ opCount = 0
    /\ inflight = 0
    /\ last = [op |-> "none", event |-> NoEvent]
    /\ simQuery = <<>>
    /\ simContent = <<>>
    /\ simScore = Frac(0, 1)
    /\ calls = {}
    /\ impl \in {Component, Hook}
    /\ NoClientActivity

FetchOutcomes == {"ok", "notOk", "noBody"}

NextClient ==
    \/ TypeInput
    \/ HandleSend
    \/ \E i \in 1..Len(uiMessages) : HandleEdit(i)
    \/ ConfirmEditAndRegenerate
    \/ RegenerateLast
    \/ StartNewChat
    \/ LoadConversation
    \/ \E r \in 1..Len(requests), ok \in BOOLEAN : LoadResolves(r, ok)
    \/ \E r \in 1..Len(requests), o \in FetchOutcomes : FetchResolves(r, o)
    \/ \E r \in 1..Len(requests) : FetchRejects(r)
    \/ \E r \in 1..Len(requests) : AbortRejects(r)
    \/ \E r \in 1..Len(requests) : ChunkArrives(r)
    \/ \E r \in 1..Len(requests) : StreamDone(r)

SpecClient == InitClient /\ [][NextClient]_vars

-----------------------------------------------------------------------------
(* Properties *)

IsAdd == last.op = "addMemory"
IsSearch == last.op = "searchMemories"
IsRetrieval == last.op \in {"searchMemories", "getAllMemories"}

\* s is the first n characters of t (all of t when t is shorter)
IsPrefixCut(s, t, n) ==
    /\ Len(s) = (IF Len(t) < n THEN Len(t) ELSE n)
    /\ \A i \in 1..Len(s) : s[i] = t[i]

IsPrefix(s, t) == Len(s) <= Len(t) /\ \A i \in 1..Len(s) : t[i] = s[i]

\* C1: starting from an empty summary, after any sequence of addMemory,
\* extractKeyInfo, deleteMemory and storeMemory calls the stored summary is
\* never longer than 1000 characters.
C1_SummaryCap == Len(conversation.summary) <= 1000

\* an important entry whose text did not fit: the summary is at the cap
C1_Witness ==
    /\ IsAdd /\ last.type # "summary" /\ last.importance >= 7
    /\ Len(last.before.summary) + Len(last.content) > 1000
    /\ Len(conversation.summary) = 1000

\* C2: addMemory of a summary-type entry sets the stored summary to exactly
\* the first min(1000, length) characters of the entry's content, whatever the
\* previous summary and the importance.
C2_SummaryOverwrite ==
    (IsAdd /\ last.type = "summary")
        => IsPrefixCut(conversation.summary, last.content, 1000)

\* a summary entry of more than 1000 characters replaces a non-empty summary
C2_Witness ==
    /\ IsAdd /\ last.type = "summary"
    /\ Len(last.content) > 1000
    /\ last.before.summary # <<>>
    /\ last.before.summary # conversation.summary

C3_Marker == <<"\n", "\n", "I", "m", "p", "o", "r", "t", "a", "n", "t", ":", " ">>

\* C3: addMemory of a non-summary entry of importance >= 7 sets the summary to
\* the first 1000 characters of old summary + "\n\nImportant: " + content; and
\* for every non-summary add (also those of extractKeyInfo) the old summary is
\* a prefix of the new one, so the summary does not get shorter.
C3_ImportantAppend ==
    /\ (IsAdd /\ last.type # "summary")
          => /\ last.importance >= 7
                   => IsPrefixCut(conversation.summary,
                                  last.before.summary \o C3_Marker \o last.content, 1000)
             /\ IsPrefix(last.before.summary, conversation.summary)
    /\ last.op = "extractKeyInfo"
          => IsPrefix(last.before.summary, conversation.summary)

\* an important entry is cut by the cap after a non-empty summary
C3_Witness ==
    /\ IsAdd /\ last.type # "summary" /\ last.importance >= 7
    /\ last.before.summary # <<>>
    /\ Len(last.before.summary) < 1000
    /\ Len(last.before.summary) + 13 + Len(last.content) > 1000

\* C4: adding a non-summary entry of importance < 7 to an existing record (by
\* addMemory, or the importance-6 context entry written when the assistant
\* turn completes) leaves the summary unchanged and appends the entry to
\* memoryEntries.
C4_UnimportantKeepsSummary ==
    /\ (IsAdd /\ last.type # "summary" /\ last.importance < 7 /\ last.before.exists)
          => /\ conversation.summary = last.before.summary
             /\ conversation.memoryEntries =
                   Append(last.before.memoryEntries,
                          [content |-> last.content,
                           id |-> last.memoryId,
                           type |-> last.type,
                           importance |-> last.importance])
    /\ (last.op = "assistantComplete" /\ last.before.exists)
          => /\ conversation.summary = last.before.summary
             /\ Len(conversation.memoryEntries) = Len(last.before.memoryEntries) + 1
             /\ SubSeq(conversation.memoryEntries, 1, Len(last.before.memoryEntries))
                   = last.before.memoryEntries
             /\ conversation.memoryEntries[Len(conversation.memoryEntries)].importance = 6

\* the context entry of a completed assistant turn, added to a non-empty summary
C4_Witness ==
    /\ last.op = "assistantComplete"
    /\ last.before.exists
    /\ last.before.summary # <<>>
    /\ Len(conversation.memoryEntries) >= 2

IsPositive(x) == x[1] > 0

\* C5: searchMemories with the empty query and a minScore > 0 returns no
\* entries, in every reachable state.
C5_EmptyQueryRetrievesNothing ==
    (IsSearch /\ last.query = <<>> /\ IsPositive(last.minScore))
        => last.result = <<>>

\* C6: the similarity score of the empty query is 0 against every content.
C6_EmptyQueryScoresZero ==
    simQuery = <<>> => simScore[1] = 0

\* the words of a string: its maximal runs of non-whitespace characters
WordStarts(s) == {i \in 1..Len(s) : ~IsSpace(s[i]) /\ (i = 1 \/ IsSpace(s[i - 1]))}
WordAt(s, i) ==
    LET j == CHOOSE e \in i..Len(s) :
                 /\ \A k \in i..e : ~IsSpace(s[k])
                 /\ (e = Len(s) \/ IsSpace(s[e + 1]))
    IN  SubSeq(s, i, j)
WordSet(s) == {WordAt(s, i) : i \in WordStarts(s)}

\* the empty tokens of a string under whitespace splitting: one in front when
\* the string is empty or starts with whitespace, one at the end when it ends
\* with whitespace
EmptyTokens(s) ==
    (IF Len(s) = 0 \/ IsSpace(s[1]) THEN 1 ELSE 0)
    + (IF Len(s) > 0 /\ IsSpace(s[Len(s)]) THEN 1 ELSE 0)

C8_AtMostLimitAboveMinScore ==
    IsSearch =>
        /\ Len(last.result) <= (IF last.limit > 0 THEN last.limit ELSE 0)
        /\ \A i \in 1..Len(last.result) :
              last.result[i].score[1] * last.minScore[2]
                  >= last.minScore[1] * last.result[i].score[2]

\* the candidates in pool order: the summary when it is not empty, then the
\* messages from the most recent back to the 20th most recent
C9_Pool ==
    LET n == Len(messages)
        k == IF n < 20 THEN n ELSE 20
    IN  (IF conversation.exists /\ conversation.summary # <<>>
         THEN << [content |-> conversation.summary, type |-> "summary", importance |-> 8] >>
         ELSE <<>>)
        \o [i \in 1..k |->
              [content |-> messages[n + 1 - i].content,
               type |-> IF messages[n + 1 - i].role = "user" THEN "user_preference"
                                                             ELSE "context",
               importance |-> IF messages[n + 1 - i].role = "user" THEN 7 ELSE 5]]

C9_Scored(query) ==
    [i \in 1..Len(C9_Pool) |->
        [content |-> C9_Pool[i].content,
         type |-> C9_Pool[i].type,
         importance |-> C9_Pool[i].importance,
         score |-> calculateSimilarity(query, C9_Pool[i].content)]]

\* the survivors, each at the place given by the number of survivors that
\* have a greater product, or an equal product and an earlier place in the pool
C9_Expected(query, minScore) ==
    LET surv == SelectSeq(C9_Scored(query), LAMBDA m :
                    m.score[1] * minScore[2] >= minScore[1] * m.score[2])
        p(i) == surv[i].score[1] * surv[i].importance
        rank(i) == 1 + Cardinality({j \in 1..Len(surv) :
                        \/ p(j) * surv[i].score[2] > p(i) * surv[j].score[2]
                        \/ (p(j) * surv[i].score[2] = p(i) * surv[j].score[2] /\ j < i)})
    IN  [r \in 1..Len(surv) |-> surv[CHOOSE i \in 1..Len(surv) : rank(i) = r]]

\* C9: for a limit >= 0 the result of searchMemories is the first `limit`
\* survivors in the order of score * importance, greatest first, candidates
\* of equal product in pool order (summary, then messages most recent first);
\* the summary carries importance 8, user messages 7, assistant messages 5.
C9_RankedByProduct ==
    (IsSearch /\ last.limit >= 0)
        => LET e == C9_Expected(last.query, last.minScore)
           IN  last.result = SubSeq(e, 1, IF last.limit < Len(e) THEN last.limit ELSE Len(e))

\* a result with a strict drop of the product and with two different
\* candidates of equal non-zero product
C9_Witness ==
    /\ IsSearch /\ last.limit >= 0
    /\ Len(last.result) >= 3
    /\ \E i \in 1..(Len(last.result) - 1) :
          /\ last.result[i].content # last.result[i + 1].content
          /\ last.result[i].score[1] > 0
          /\ FracEq(Product(last.result[i]), Product(last.result[i + 1]))
    /\ \E i \in 1..(Len(last.result) - 1) :
          FracGt(Product(last.result[i]), Product(last.result[i + 1]))

C10_FullRetrieval ==
    \/ last.op = "getAllMemories"
    \/ IsSearch /\ last.minScore[1] = 0 /\ last.limit = 50

\* C10: with a non-empty summary and at least one stored message, retrieval
\* with minScore 0 and limit 50 returns the summary entry whatever the query,
\* and returns the whole pool: the summary and the 20 most recent messages at
\* most.
C10_SummaryAlwaysRetrieved ==
    (C10_FullRetrieval /\ conversation.summary # <<>> /\ Len(messages) >= 1)
        => /\ \E i \in 1..Len(last.result) :
                 /\ last.result[i].type = "summary"
                 /\ last.result[i].content = conversation.summary
           /\ Len(last.result) <= 21
           /\ Len(last.result) = 1 + (IF Len(messages) < 20 THEN Len(messages) ELSE 20)

\* more than 20 stored messages and a summary: 21 candidates come back
C10_Witness ==
    /\ C10_FullRetrieval
    /\ conversation.summary # <<>>
    /\ Len(messages) > 20
    /\ Len(last.result) = 21

\* the whole number q with 500 q <= x < 500 (q + 1)
C11_Floor500(x) == CHOOSE q \in -100..100 : 500 * q <= x /\ x < 500 * (q + 1)

\* C11: for every message list L and every maxTokens, trimHistory returns the
\* last min(|L|, max(6, floor(maxTokens / 500))) messages of L in their order;
\* maxTokens may be 0, negative or no multiple of 500.
C11_TrimKeepsSuffix ==
    last.op = "trimHistory" =>
        LET L == last.messages
            f == C11_Floor500(last.maxTokens)
            m == IF f > 6 THEN f ELSE 6
            k == IF Len(L) < m THEN Len(L) ELSE m
        IN  /\ Len(last.result) = k
            /\ \A i \in 1..k : last.result[i] = L[Len(L) - k + i]

\* 10 messages and maxTokens = 3000: the last 6 come back
C11_Witness ==
    /\ last.op = "trimHistory"
    /\ Len(last.messages) = 10
    /\ last.maxTokens = 3000
    /\ Len(last.result) = 6
    /\ last.result[1] = last.messages[5]

IsChat == last.op = "chat"

\* the message the chat route puts in front when memories were retrieved
C12_IsInjected(m) == m.role = "system" /\ IsPrefix(MemoryHeader, m.content)

C12_MaxMessages(maxTokens) ==
    LET f == C11_Floor500(maxTokens) IN IF f > 6 THEN f ELSE 6

\* C12: the memory message is prepended before trimming: the list sent to the
\* model starts with the injected system message if and only if at least one
\* memory was retrieved and the turn has fewer than max(6, floor(maxTokens/500))
\* messages; with maxMessages or more turn messages the injected message is
\* evicted and the model gets exactly the last maxMessages turn messages.
C12_InjectThenTrim ==
    (IsChat /\ last.modelCalled) =>
        LET n  == Len(last.msgs)
            m  == C12_MaxMessages(last.maxTokens)
            in == last.modelInput
        IN  /\ (in # <<>> /\ C12_IsInjected(in[1]))
                  <=> (Len(last.relevantMemories) >= 1 /\ n < m)
            /\ n >= m =>
                  /\ Len(in) = m
                  /\ \A i \in 1..m :
                        /\ in[i].role = last.msgs[n - m + i].role
                        /\ in[i].content = last.msgs[n - m + i].content

\* memories were retrieved for a turn of exactly maxMessages messages, and the
\* model got the turn messages without the memory message
C12_Witness ==
    /\ IsChat /\ last.modelCalled
    /\ Len(last.relevantMemories) >= 1
    /\ Len(last.msgs) = C12_MaxMessages(last.maxTokens)
    /\ Len(last.modelInput) = Len(last.msgs)
    /\ ~C12_IsInjected(last.modelInput[1])

\* C13: for every conversation state, a chat turn with an empty message list
\* retrieves no memory at minScore 0.3, injects no system message and hands
\* the empty list to the model.
C13_EmptyTurnEmptyContext ==
    (IsChat /\ last.modelCalled /\ last.msgs = <<>>)
        => /\ last.relevantMemories = <<>>
           /\ last.modelInput = <<>>

\* content contains one of the keywords, letter case ignored
C14_Mentions(content, keywords) ==
    \E k \in 1..Len(keywords), i \in 1..Len(content) :
        /\ i + Len(keywords[k]) - 1 <= Len(content)
        /\ \A j \in 1..Len(keywords[k]) : toLowerCase(content)[i + j - 1] = keywords[k][j]

\* C14: one extractKeyInfo call on an existing record appends exactly one
\* entry (user_preference, importance 8, "User preference: " + content) for
\* each user message that contains a preference keyword, however many keywords
\* match, exactly one entry (fact, importance 6, "Fact: " + content) for each
\* assistant message that contains a fact keyword, and nothing else.
C14_ExtractionPerMessage ==
    (last.op = "extractKeyInfo" /\ last.before.exists) =>
        LET old    == last.before.memoryEntries
            all    == conversation.memoryEntries
            new    == SubSeq(all, Len(old) + 1, Len(all))
            msgs   == last.msgs
            prefAt == {i \in 1..Len(msgs) : /\ msgs[i].role = "user"
                                            /\ C14_Mentions(msgs[i].content, preferenceKeywords)}
            factAt == {i \in 1..Len(msgs) : /\ msgs[i].role = "assistant"
                                            /\ C14_Mentions(msgs[i].content, factKeywords)}
            IsPref(e, c) == /\ e.type = "user_preference" /\ e.importance = 8
                            /\ e.content = PreferencePrefix \o c
            IsFact(e, c) == /\ e.type = "fact" /\ e.importance = 6
                            /\ e.content = FactPrefix \o c
        IN  /\ Len(all) >= Len(old) /\ SubSeq(all, 1, Len(old)) = old
            /\ Len(new) = Cardinality(prefAt) + Cardinality(factAt)
            /\ \A i \in prefAt :
                  Cardinality({j \in 1..Len(new) : IsPref(new[j], msgs[i].content)})
                      = Cardinality({k \in prefAt : msgs[k].content = msgs[i].content})
            /\ \A i \in factAt :
                  Cardinality({j \in 1..Len(new) : IsFact(new[j], msgs[i].content)})
                      = Cardinality({k \in factAt : msgs[k].content = msgs[i].content})
            /\ \A j \in 1..Len(new) :
                  \/ \E i \in prefAt : IsPref(new[j], msgs[i].content)
                  \/ \E i \in factAt : IsFact(new[j], msgs[i].content)

\* a user message with two preference keywords, a system message and an
\* assistant message with a preference keyword, a user message with a fact
\* keyword: three entries
C14_Witness ==
    /\ last.op = "extractKeyInfo" /\ last.before.exists
    /\ Len(last.msgs) = 7
    /\ last.msgs[1].content = StrTwoPreferences
    /\ Len(conversation.memoryEntries) = Len(last.before.memoryEntries) + 3

\* C15: when the store is unavailable the chat turn still reaches the model
\* call, with no memory and the trimmed posted messages as input, and does not
\* end in an error response.
C15_StoreDownTurnProceeds ==
    (IsChat /\ last.failure = "store")
        => /\ last.modelCalled
           /\ last.status = 200
           /\ last.relevantMemories = <<>>
           /\ last.modelInput = trimHistory(last.msgs, last.maxTokens)

C16_AssistantMessages(msgs) == Cardinality({i \in 1..Len(msgs) : msgs[i].role = "assistant"})

C16_ResponseEntries(conv) ==
    Cardinality({i \in 1..Len(conv.memoryEntries) :
                    IsPrefix(AssistantPrefix, conv.memoryEntries[i].content)})

\* C16: an assistant message or an "Assistant response" entry is written only
\* by the step that receives the final text of a completed generation, which
\* uses up that turn; the step of an aborted or failed generation uses up its
\* turn and writes nothing, and a request that ends in an error writes neither.
C16_AbortSafety ==
    [][ /\ (\/ C16_AssistantMessages(messages') > C16_AssistantMessages(messages)
            \/ C16_ResponseEntries(conversation') > C16_ResponseEntries(conversation))
           => /\ last'.op = "assistantComplete"
              /\ inflight' = inflight - 1
        /\ (last'.op = "assistantAbort" /\ inflight' = inflight - 1)
           => /\ messages' = messages
              /\ conversation' = conversation
        /\ (last'.op = "chat" /\ last'.status = 500)
           => inflight' = inflight
      ]_vars

\* a generation was aborted after its user message had been saved: the
\* conversation has no assistant-derived entry and its last message is the
\* user message
C16_Witness ==
    /\ last.op = "assistantAbort"
    /\ inflight = 0
    /\ Len(messages) >= 1
    /\ messages[Len(messages)].role = "user"
    /\ conversation.exists
    /\ C16_ResponseEntries(conversation) = 0
    /\ messages = last.beforeMessages

C17_LastIsUser == last.msgs # <<>> /\ last.msgs[Len(last.msgs)].role = "user"

\* C17: in a chat turn whose last message is a user message, that message is
\* written before the model call begins, so it is recorded also when the model
\* call fails; and a failure of the write leaves the model call as it is.
C17_UserMessageBeforeModelCall ==
    /\ (IsChat /\ last.modelCalled /\ C17_LastIsUser /\ last.failure # "userSave")
          => messages = Append(last.beforeMessages,
                               [content |-> last.msgs[Len(last.msgs)].content,
                                role |-> "user",
                                userId |-> UserId])
    /\ (IsChat /\ last.failure = "userSave")
          => /\ last.modelCalled
             /\ last.status = 200
             /\ last.modelInput = coreMessages(last.msgs, last.relevantMemories,
                                               last.maxTokens)

C18_Prefix == <<"A", "s", "s", "i", "s", "t", "a", "n", "t", " ",
                "r", "e", "s", "p", "o", "n", "s", "e", ":", " ">>

\* C18: when the final text T arrives, first the assistant message with
\* content T is saved and then one entry (context, importance 6, content
\* "Assistant response: " + T) is added to the conversation record, the
\* summary staying as it is; a failure of the message save is caught and
\* leaves the store unchanged (the entry is never written without the
\* message), a failure of the entry write is caught and leaves the saved
\* message in place.
C18_CompletionWrites ==
    last.op = "assistantComplete" =>
        LET T     == last.finalText
            msg   == [content |-> T, role |-> "assistant", userId |-> UserId]
            entry == [content |-> C18_Prefix \o T,
                      id |-> last.memoryId,
                      type |-> "context",
                      importance |-> 6]
        IN  /\ (last.failure = "none" /\ T # <<>>)
                  => /\ messages = Append(last.beforeMessages, msg)
                     /\ last.before.exists
                           => /\ conversation.memoryEntries
                                    = Append(last.before.memoryEntries, entry)
                              /\ conversation.summary = last.before.summary
                              /\ nextMemId = last.memoryId + 1
            /\ last.failure = "memory"
                  => /\ T # <<>> => messages = Append(last.beforeMessages, msg)
                     /\ conversation = last.before
            /\ (last.failure = "assistantSave" \/ T = <<>>)
                  => /\ messages = last.beforeMessages
                     /\ conversation = last.before

\* a completed turn on an existing record: the assistant message is the last
\* message and the entry made from its text is the last entry
C18_Witness ==
    /\ last.op = "assistantComplete"
    /\ last.failure = "none"
    /\ last.before.exists
    /\ last.finalText # <<>>
    /\ messages[Len(messages)].role = "assistant"
    /\ messages[Len(messages)].content = last.finalText
    /\ conversation.memoryEntries[Len(conversation.memoryEntries)].content
          = C18_Prefix \o last.finalText

\* C19: deleteMemory(id) removes exactly the entries whose id is the given
\* one and keeps the others in their order; summary, title and messages stay
\* as they are, so the summary (with the text of a deleted important entry) is
\* still retrieved; for an id that is not in the list, and for a conversation
\* without a record, the stored state is unchanged.
C19_DeleteFrame ==
    last.op = "deleteMemory" =>
        LET old  == last.before.memoryEntries
            new  == conversation.memoryEntries
            keep == {i \in 1..Len(old) : old[i].id # last.memoryId}
            \* the place in the new list of the kept entry at place i of the old
            place(i) == Cardinality({k \in keep : k <= i})
        IN  /\ Len(new) = Cardinality(keep)
            /\ \A i \in keep : new[place(i)] = old[i]
            /\ conversation.exists = last.before.exists
            /\ conversation.summary = last.before.summary
            /\ conversation.title = last.before.title
            /\ messages = last.beforeMessages
            /\ (keep = 1..Len(old) \/ ~last.before.exists) => conversation = last.before
            /\ conversation.summary # <<>>
                  => \E i \in 1..Len(searchMemories(conversation, messages, UserId,
                                                    StrEmpty, AllLimit, Frac(0, 1))) :
                        LET item == searchMemories(conversation, messages, UserId,
                                                   StrEmpty, AllLimit, Frac(0, 1))[i]
                        IN  item.type = "summary" /\ item.content = last.before.summary

\* the second of three entries is deleted, an important one whose text is in
\* the summary: the first and the third remain, the summary still holds the text
C19_Witness ==
    /\ last.op = "deleteMemory"
    /\ Len(last.before.memoryEntries) = 3
    /\ last.memoryId = last.before.memoryEntries[2].id
    /\ last.before.memoryEntries[2].importance >= 7
    /\ Len(conversation.memoryEntries) = 2
    /\ conversation.memoryEntries[1] = last.before.memoryEntries[1]
    /\ conversation.memoryEntries[2] = last.before.memoryEntries[3]
    /\ \E i \in 1..(Len(conversation.summary)
                       - Len(last.before.memoryEntries[2].content) + 1) :
          SubSeq(conversation.summary, i,
                 i + Len(last.before.memoryEntries[2].content) - 1)
              = last.before.memoryEntries[2].content

\* C20: every memory entry stored in a conversation, whichever operation
\* stored it (extraction, the completion of an assistant turn, or a posted
\* add with the client's type and importance), has an importance in 1..10 and
\* a type among user_preference, fact, context and summary.
C20_EntriesWellFormed ==
    \A i \in 1..Len(conversation.memoryEntries) :
        /\ conversation.memoryEntries[i].importance \in 1..10
        /\ conversation.memoryEntries[i].type
              \in {"user_preference", "fact", "context", "summary"}

\* the record a turn starts with: the one stored under the posted id, or the
\* record the route has just created
C23_StartOfTurn ==
    IF last.withId THEN last.before
    ELSE NewConversation(IF last.msgs # <<>> /\ StrSlice(last.msgs[1].content, TitleLength) # <<>>
                         THEN StrSlice(last.msgs[1].content, TitleLength)
                         ELSE NewChatTitle)

\* C23: the memories a chat turn retrieves are those of the store as it was
\* when the turn started; what the turn's own extraction step wrote (summary
\* and entries) is not among them.
C23_RetrievalSeesStartOfTurn ==
    (IsChat /\ last.modelCalled)
        => last.relevantMemories =
              searchMemories(C23_StartOfTurn, last.beforeMessages, UserId,
                             join(last.msgs), ChatLimit, ChatMinScore)

\* what getAllMemories returns in the current state
C26_AllMemories ==
    searchMemories(conversation, messages, UserId, StrEmpty, AllLimit, Frac(0, 1))

C26_Carried(content) ==
    \E i \in 1..Len(C26_AllMemories) : includes(C26_AllMemories[i].content, content)

\* C26: after addMemory(content, type, importance) on an existing conversation,
\* with an importance in 1..10, getAllMemories returns an item that carries
\* the content; after deleteMemory of an entry no item of a conversation
\* without messages carries the content of that entry.
C26_AddRetrieveRoundTrip ==
    /\ (IsAdd /\ last.before.exists /\ last.importance \in 1..10)
          => C26_Carried(last.content)
    /\ (last.op = "deleteMemory" /\ last.before.exists /\ messages = <<>>)
          => \A i \in 1..Len(last.before.memoryEntries) :
                last.before.memoryEntries[i].id = last.memoryId
                    => ~C26_Carried(last.before.memoryEntries[i].content)

\* C29: addMemory on a conversation id without a record returns a fresh memory
\* id and leaves the store as it was: no record is created, no entry is
\* stored, retrieval for that id returns no summary (and nothing at all when
\* no message was saved under the id), and a deleteMemory on a missing record
\* changes nothing either.
C29_AddWithoutRecord ==
    /\ (IsAdd /\ ~last.before.exists)
          => /\ last.memoryId = nextMemId - 1
             /\ conversation = last.before
             /\ conversation = NoConversation
             /\ messages = last.beforeMessages
             /\ LET found == searchMemories(conversation, messages, UserId,
                                             StrEmpty, AllLimit, Frac(0, 1))
                IN  /\ \A i \in 1..Len(found) : found[i].type # "summary"
                    /\ messages = <<>> => found = <<>>
             /\ deleteMemory(conversation, last.memoryId) = conversation
    /\ (last.op = "deleteMemory" /\ ~last.before.exists)
          => conversation = NoConversation

\* an add on a missing record has returned the id 2, after an earlier call
\* that took the id 1, and no record is stored
C29_Witness ==
    /\ IsAdd
    /\ ~last.before.exists
    /\ last.memoryId = 2
    /\ last.importance = 7
    /\ ~conversation.exists

\* the "Important:" appendices of the user messages of msgs that mention a
\* preference keyword, in the order of the messages
RECURSIVE C28_Appendices(_)
C28_Appendices(msgs) ==
    IF msgs = <<>> THEN <<>>
    ELSE (IF Head(msgs).role = "user" /\ C14_Mentions(Head(msgs).content, preferenceKeywords)
          THEN ImportantMarker \o PreferencePrefix \o Head(msgs).content
          ELSE <<>>)
         \o C28_Appendices(Tail(msgs))

C28_EntriesWith(conv, content) ==
    Cardinality({i \in 1..Len(conv.memoryEntries) : conv.memoryEntries[i].content = content})

\* C28: extraction has no de-duplication.  Every extractKeyInfo call and every
\* chat turn on an existing record adds, for each user message of the posted
\* list that mentions a preference, one more user_preference entry with the
\* same content to the entries already stored, even when that content is
\* stored already, and appends one more "Important: User preference: ..." text
\* to the summary, which is cut at 1000 characters.
C28_ExtractionAccumulates ==
    LET start == IF IsChat THEN C23_StartOfTurn ELSE last.before
    IN  ((last.op = "extractKeyInfo" \/ (IsChat /\ last.modelCalled)) /\ start.exists) =>
            /\ \A i \in 1..Len(last.msgs) :
                  (last.msgs[i].role = "user"
                      /\ C14_Mentions(last.msgs[i].content, preferenceKeywords))
                  => C28_EntriesWith(conversation, PreferencePrefix \o last.msgs[i].content)
                        = C28_EntriesWith(start, PreferencePrefix \o last.msgs[i].content)
                          + Cardinality({k \in 1..Len(last.msgs) :
                                            /\ last.msgs[k].role = "user"
                                            /\ last.msgs[k].content = last.msgs[i].content})
            /\ conversation.summary
                  = StrSlice(start.summary \o C28_Appendices(last.msgs), maxLength)

\* the second of two chat turns that posted the same preference message: two
\* entries with the same content and different ids, two identical appendices
C28_Witness ==
    /\ IsChat /\ last.modelCalled
    /\ last.msgs = <<UserMsg(StrILikeA)>>
    /\ C28_EntriesWith(last.before, PreferencePrefix \o StrILikeA) = 1
    /\ C28_EntriesWith(conversation, PreferencePrefix \o StrILikeA) = 2
    /\ conversation.memoryEntries[1].id # conversation.memoryEntries[2].id
    /\ conversation.summary = ImportantMarker \o PreferencePrefix \o StrILikeA
                                \o ImportantMarker \o PreferencePrefix \o StrILikeA

\* the number of addMemory calls extractKeyInfo makes for msgs when none fails
C25_Matching(msgs) ==
    Cardinality({i \in 1..Len(msgs) :
                    \/ msgs[i].role = "user" /\ C14_Mentions(msgs[i].content, preferenceKeywords)
                    \/ msgs[i].role = "assistant" /\ C14_Mentions(msgs[i].content, factKeywords)})

\* C25: when the write of one entry fails during the extraction of a chat
\* turn, every other matching entry is still written and the turn goes on to
\* the model call instead of ending in an error response.
C25_FailureIsolated ==
    (IsChat /\ last.failure = "extract" /\ C23_StartOfTurn.exists) =>
        /\ Len(conversation.memoryEntries)
              = Len(C23_StartOfTurn.memoryEntries) + C25_Matching(last.msgs) - 1
        /\ last.modelCalled
        /\ last.status = 200

C27_Foreign ==
    /\ last.op \in {"memoryGet", "memoryPost", "memoryDelete"}
    /\ last.userId # UserId

\* C27: a search, add or delete that another user issues for the conversation
\* of UserId returns neither its summary nor its messages and leaves its
\* record and its messages as they were.
C27_OwnershipScoped ==
    C27_Foreign =>
        /\ conversation = last.before
        /\ messages = last.beforeMessages
        /\ last.op = "memoryGet" => last.result = <<>>

C24_Stored(memory) ==
    \E i \in 1..Len(conversation.memoryEntries) : conversation.memoryEntries[i] = memory

C24_ReadEntry(c, memory) ==
    \E i \in 1..Len(c.read.memoryEntries) : c.read.memoryEntries[i] = memory

\* the entry of the returned add c was removed by a returned delete that had read it
C24_Deleted(c) ==
    \E d \in calls : /\ d.kind = "delete" /\ d.done
                     /\ d.memoryId = c.memory.id
                     /\ C24_ReadEntry(d, c.memory)

\* C24: addMemory and deleteMemory write back the record they have read, with
\* no check that it is still the stored one: after the write of a call the
\* stored entry list (and, for an add, the summary) is the one the call has
\* read plus its own change, whatever other calls have written in between.
\* When no call ran while another was between its read and its write, every
\* returned add on an existing record has its entry stored unless a returned
\* delete removed it, has its "Important:" text in the summary when its
\* importance is at least 7, and no entry a returned delete has read under
\* its id is stored.
C24_ReadThenWrite ==
    /\ (last.op = "addMemoryWrite" /\ last.call.read.exists)
          => /\ conversation.memoryEntries
                    = last.call.read.memoryEntries \o <<last.call.memory>>
             /\ conversation.summary
                    = createEnhancedSummary(last.call.read.summary, last.call.memory)
    /\ (last.op = "deleteMemoryWrite" /\ last.call.read.exists)
          => conversation.memoryEntries
                = SelectSeq(last.call.read.memoryEntries,
                            LAMBDA entry : entry.id # last.call.memoryId)
    /\ (\A c \in calls : ~c.overlap)
          => \A c \in calls :
                /\ (c.kind = "add" /\ c.done /\ c.read.exists /\ ~C24_Deleted(c))
                      => /\ C24_Stored(c.memory)
                         /\ c.memory.importance >= 7
                               => includes(conversation.summary,
                                           ImportantMarker \o c.memory.content)
                /\ (c.kind = "delete" /\ c.done)
                      => \A i \in 1..Len(c.read.memoryEntries) :
                            c.read.memoryEntries[i].id = c.memoryId
                                => ~C24_Stored(c.read.memoryEntries[i])

\* the lost update: two adds of importance 7 with different contents have both
\* returned, no delete was called, and the entry of one of them is not stored
\* and its text is not in the summary
C24_Witness ==
    /\ Pending(calls) = {}
    /\ \A c \in calls : c.kind = "add" /\ c.read.exists /\ c.memory.importance = 7
    /\ \E c, d \in calls :
          /\ c.memory.content # d.memory.content
          /\ ~C24_Stored(c.memory)
          /\ C24_Stored(d.memory)
          /\ ~includes(conversation.summary, ImportantMarker \o c.memory.content)
          /\ includes(conversation.summary, ImportantMarker \o d.memory.content)

\* the request of the last event
C21_Request == requests[last.event.request]

\* C21: when the request of a send fails (the fetch rejects, or the response
\* is not ok or has no body), the client ends with error set to the text of
\* the failure and isLoading false, in ChatUI.tsx and with the useChat hook.
C21_FailedSendShowsError ==
    (/\ last.event.name = "failed"
     /\ last.event.failure \in {ErrApi, ErrStream}
     /\ C21_Request.kind = "send")
        => /\ error = last.event.failure
           /\ isLoading = FALSE

\* C22: after startNewChat, and for as long as the user does nothing else, the
\* request abortRef holds is aborted or over, and the list is empty, the input
\* is empty, and conversationId, editingId and error are null, whatever events
\* of the chat requests started earlier arrive (no conversation is being
\* loaded).
C22_NewChatIsStable ==
    (last.op = "startNewChat" /\ \A r \in 1..Len(requests) : requests[r].kind # "load") =>
        /\ abortRef # NoId => \/ requests[abortRef].aborted
                              \/ requests[abortRef].phase \in {"done", "failed"}
        /\ uiMessages = <<>>
        /\ localInput = <<>>
        /\ conversationId = Null
        /\ editingId = NoId
        /\ error = Null

\* the requests whose chunks are in the text s
C30_Writers(s) ==
    {r \in 1..Len(requests) : \E i \in 1..Len(s) : s[i] = Digits[r]}

\* C30: at most one request that streams into the list is running; no message
\* holds chunks of two requests; and no message of a loaded conversation holds
\* a chunk of a request that was started before the conversation was loaded.
C30_SingleActiveStream ==
    /\ Cardinality({r \in 1..Len(requests) :
                       /\ requests[r].kind # "load"
                       /\ requests[r].phase \in {"fetching", "streaming"}
                       /\ ~requests[r].aborted}) <= 1
    /\ \A i \in 1..Len(uiMessages) :
          /\ Cardinality(C30_Writers(uiMessages[i].content)) <= 1
          /\ uiMessages[i].id < 0
                => \A r \in C30_Writers(uiMessages[i].content) : ~requests[r].stale

====
